---- MODULE Spec2Model ----
(***************************************************************************)
(* Polymarket Edge Finder: the dashboard (App.jsx), its API client         *)
(* (api/client.js) and the backend endpoints they talk to.                 *)
(*                                                                         *)
(* The dashboard is a single-threaded React component: every handler and   *)
(* every continuation after an await runs to its next await atomically,    *)
(* and the buttons are rendered from the state of the last render.  Each   *)
(* action below is one such run-to-await segment, or one step of the       *)
(* backend serving a request.                                              *)
(***************************************************************************)
EXTENDS Integers, Sequences, FiniteSets, TLC

\* ------------------------------------------------------------------ bounds
MaxClicks == 2        \* clicks on "Refresh Data", "Load Demo" and "Load Demo Data"
MaxRuns == 2          \* handleRefresh runs with a trigger, interval or poll outstanding
MaxPolls == 2         \* status polls of one refresh in flight together
MaxFetch == 2         \* fetchData calls in flight together
MaxHookRequests == 3  \* requests issued by one mounted data hook

Runs == 1..MaxRuns

\* --------------------------------------------------------------- constants
FETCH_LIMIT == 50             \* fetchData's { limit: 50 }

Null == "null"
NullStats == [is_null |-> TRUE]

TABS == [MARKETS |-> "markets", OPPORTUNITIES |-> "opportunities",
         PREDICTIONS |-> "predictions"]
TabValues == {TABS.MARKETS, TABS.OPPORTUNITIES, TABS.PREDICTIONS}

\* fetchData's four reads, in the order Promise.all's array sends them.
ReadOrder == <<"stats", "markets", "opportunities", "predictions">>
ReadNames == {ReadOrder[k] : k \in 1..4}

\* ------------------------------------------------------------ API client
\* request(): what a non-OK response is turned into.  A body is one of
\*   [kind |-> "not_json"]                       response.json() rejects
\*   [kind |-> "null"]                           the JSON value null
\*   [kind |-> "object", detail |-> <<>>]        a JSON object without detail
\*   [kind |-> "object", detail |-> <<s>>]       a JSON object with detail s
ParsedErrorBody(body) ==
    IF body.kind = "not_json" THEN [kind |-> "object", detail |-> <<>>] ELSE body

DecDigit(d) ==
    CASE d = 0 -> "0" [] d = 1 -> "1" [] d = 2 -> "2" [] d = 3 -> "3" [] d = 4 -> "4"
      [] d = 5 -> "5" [] d = 6 -> "6" [] d = 7 -> "7" [] d = 8 -> "8" [] d = 9 -> "9"

RECURSIVE NumToString(_)
NumToString(n) ==
    IF n < 10 THEN DecDigit(n) ELSE NumToString(n \div 10) \o DecDigit(n % 10)

SyntaxErrorMessage == "Unexpected token < in JSON at position 0"
TypeErrorMessage == "Cannot read properties of null (reading 'detail')"

\* The outcome of request() for a response [ok, status, body]:
\* [resolved |-> TRUE] or [resolved |-> FALSE, message |-> m].
request(response) ==
    IF ~response.ok
    THEN LET error == ParsedErrorBody(response.body) IN
         IF error.kind = "null"
         THEN [resolved |-> FALSE, message |-> TypeErrorMessage]
         ELSE IF error.detail # <<>> /\ error.detail[1] # ""
         THEN [resolved |-> FALSE, message |-> error.detail[1]]
         ELSE [resolved |-> FALSE,
               message |-> "Request failed: " \o NumToString(response.status)]
    ELSE IF response.body.kind = "not_json"
    THEN [resolved |-> FALSE, message |-> SyntaxErrorMessage]    \* response.json() rejects
    ELSE [resolved |-> TRUE]

\* An optional argument is <<>> (undefined) or <<v>>.
Supplied(opt) == opt # <<>>

\* JavaScript truthiness of a number or a string.
Truthy(type, v) == IF type = "number" THEN v # 0 ELSE v # ""

\* String(v), as URLSearchParams.append converts its value.
ToParamValue(type, v) == IF type = "number" THEN NumToString(v) ELSE v

\* if (value) params.append(name, value), for the fields <<field, name, type>> in order.
RECURSIVE AppendParams(_, _, _)
AppendParams(params, args, fields) ==
    IF fields = <<>> THEN params
    ELSE LET fd == Head(fields)
             opt == args[fd[1]]
             next == IF Supplied(opt) /\ Truthy(fd[3], opt[1])
                     THEN Append(params, <<fd[2], ToParamValue(fd[3], opt[1])>>)
                     ELSE params
         IN AppendParams(next, args, Tail(fields))

\* URLSearchParams.toString()
RECURSIVE ParamsToString(_)
ParamsToString(params) ==
    IF params = <<>> THEN ""
    ELSE LET rest == ParamsToString(Tail(params)) IN
         Head(params)[1] \o "=" \o Head(params)[2] \o (IF rest = "" THEN "" ELSE "&" \o rest)

Endpoint(path, params) ==
    LET query == ParamsToString(params) IN
    path \o (IF query # "" THEN "?" \o query ELSE "")

MarketsFields ==
    << <<"category", "category", "string">>, <<"minScore", "min_score", "number">>,
       <<"minVolume", "min_volume", "number">>, <<"limit", "limit", "number">>,
       <<"offset", "offset", "number">> >>

OpportunitiesFields ==
    << <<"edgeType", "edge_type", "string">>, <<"minConfidence", "min_confidence", "number">>,
       <<"riskLevel", "risk_level", "string">>, <<"limit", "limit", "number">> >>

PredictionsFields ==
    << <<"direction", "direction", "string">>, <<"minEdge", "min_edge", "number">>,
       <<"limit", "limit", "number">> >>

getMarkets(args) == AppendParams(<<>>, args, MarketsFields)
getOpportunities(args) == AppendParams(<<>>, args, OpportunitiesFields)
getPredictions(args) == AppendParams(<<>>, args, PredictionsFields)

\* The failures the dashboard's requests meet in this model.
ErrResponses ==
    { [ok |-> FALSE, status |-> 500, body |-> [kind |-> "not_json"]] }

\* ------------------------------------------------------------- components
\* JavaScript numbers are modelled as exact fractions [n, d] with d > 0.
Num(n, d) == [n |-> n, d |-> d]
NumLeq(a, b) == a.n * b.d <= b.n * a.d
NumMul(a, b) == Num(a.n * b.n, a.d * b.d)
NumDiv(a, b) == IF b.n > 0 THEN Num(a.n * b.d, a.d * b.n) ELSE Num(-(a.n * b.d), -(a.d * b.n))

MathMax(a, b) == IF NumLeq(a, b) THEN b ELSE a
MathMin(a, b) == IF NumLeq(a, b) THEN a ELSE b

\* ScoreBar: Math.min(100, Math.max(0, (value / max) * 100))
Percentage(value, max) ==
    MathMin(Num(100, 1), MathMax(Num(0, 1), NumMul(NumDiv(value, max), Num(100, 1))))

ColorClassMutStrict(percentage) ==
    IF ~NumLeq(percentage, Num(70, 1)) THEN "high"
    ELSE IF ~NumLeq(percentage, Num(40, 1)) THEN "medium"
    ELSE "low"

\* ScoreBar: colorClass
ColorClass(percentage) ==
    IF NumLeq(Num(70, 1), percentage) THEN "high"
    ELSE IF NumLeq(Num(40, 1), percentage) THEN "medium"
    ELSE "low"

ScoreBar(value, max) ==
    LET percentage == Percentage(value, max) IN
    [width |-> percentage, colorClass |-> ColorClass(percentage)]

\* OpportunityCard's label table and risk colours.
EDGE_TYPE_LABELS ==
    [arbitrage |-> [label |-> "Arbitrage", color |-> "green"],
     mispricing |-> [label |-> "Mispricing", color |-> "yellow"],
     correlation |-> [label |-> "Correlation", color |-> "blue"],
     volume_signal |-> [label |-> "Volume Signal", color |-> "purple"],
     liquidity_gap |-> [label |-> "Liquidity Gap", color |-> "blue"]]

RISK_COLORS == [low |-> "green", medium |-> "yellow", high |-> "red"]

\* EDGE_TYPE_LABELS[edge_type] || { label: edge_type, color: 'gray' }
TypeInfoFallback(edge_type) == [label |-> edge_type, color |-> "gray"]

TypeInfo(edge_type) ==
    IF edge_type \in DOMAIN EDGE_TYPE_LABELS THEN EDGE_TYPE_LABELS[edge_type]
    ELSE TypeInfoFallback(edge_type)

\* RISK_COLORS[risk_level] || 'gray'
RiskColor(risk_level) ==
    IF risk_level \in DOMAIN RISK_COLORS THEN RISK_COLORS[risk_level] ELSE "gray"

OpportunityCard(opportunity) ==
    [typeInfo |-> TypeInfo(opportunity.edge_type),
     riskColor |-> RiskColor(opportunity.risk_level)]

\* The edge types the detectors emit (README, Edge Detection).
EdgeTypes == {"arbitrage", "mispricing", "temporal", "volume_signal", "liquidity_gap"}
RiskLevels == {"low", "medium", "high"}

\* --------------------------------------------------------------- backend
\* The collections the backend holds after a load of kind src.
Dataset(src) ==
    CASE src = "none" -> [markets |-> <<>>, opportunities |-> <<>>, predictions |-> <<>>]
      [] src = "demo" -> [markets |-> <<"d1", "d2">>,
                          opportunities |-> <<"d1-arbitrage">>,
                          predictions |-> <<"d1", "d2">>]
      [] src = "live" -> [markets |-> <<"m1">>,
                          opportunities |-> <<"m1-mispricing", "m1-volume_signal">>,
                          predictions |-> <<"m1">>]

Min(a, b) == IF a < b THEN a ELSE b

Limited(items, limit) == SubSeq(items, 1, Min(limit, Len(items)))

StatsOf(src) ==
    [total_markets |-> Len(Dataset(src).markets),
     total_opportunities |-> Len(Dataset(src).opportunities),
     total_predictions |-> Len(Dataset(src).predictions)]

Pending == [gen |-> -1, src |-> "pending"]

VARIABLES
    \* the dashboard's state (useState)
    activeTab, stats, markets, opportunities, predictions, loading, refreshing, error,
    \* the dashboard's requests in flight
    runPhase,      \* per handleRefresh run: idle, sent, accepted, polling, done, failed
    clicks,        \* clicks on the three loading buttons so far
    polls,         \* per run: status polls sent, and answered with is_loading t / f
    fetches,       \* the fetchData calls in flight: what its reads have returned
    demoSent, demoOk,
    \* the backend
    bLoading, bGen, bSrc,
    \* history
    fetchesForRun, \* fetchData calls issued by each run's poll callbacks
    doneSeen,      \* whether a poll of the run has returned is_loading = false
    demoDone,      \* handleLoadDemo runs completed with a successful reload
    lastReads,     \* the reads of the last fetchData that completed successfully
    call,          \* the last call of a pure client function, and its result
    hook           \* the state of a mounted useMarkets / useOpportunities / usePredictions

appVars == <<activeTab, stats, markets, opportunities, predictions, loading,
             refreshing, error>>
netVars == <<runPhase, clicks, polls, fetches, demoSent, demoOk>>
backendVars == <<bLoading, bGen, bSrc>>
histVars == <<fetchesForRun, doneSeen, demoDone, lastReads>>
vars == <<appVars, netVars, backendVars, histVars, call, hook>>

collections == <<stats, markets, opportunities, predictions>>

NoCall == [fn |-> "none"]

NoHook == [name |-> "none"]

NewFetch(origin) == [served |-> <<>>, origin |-> origin]

NoReads == [n \in ReadNames |-> Pending]

Init ==
    /\ activeTab = TABS.MARKETS
    /\ stats = NullStats
    /\ markets = <<>>
    /\ opportunities = <<>>
    /\ predictions = <<>>
    /\ loading = TRUE
    /\ refreshing = FALSE
    /\ error = Null
    /\ runPhase = [r \in Runs |-> "idle"]
    /\ clicks = 0
    /\ polls = [r \in Runs |-> [sent |-> 0, t |-> 0, f |-> 0]]
    /\ fetches = <<NewFetch("mount")>>      \* the initial-load effect
    /\ demoSent = 0 /\ demoOk = 0
    /\ bLoading = FALSE /\ bGen = 0 /\ bSrc = "none"
    /\ fetchesForRun = [r \in Runs |-> 0]
    /\ doneSeen = [r \in Runs |-> FALSE]
    /\ demoDone = 0
    /\ lastReads = NoReads
    /\ call = NoCall
    /\ hook = NoHook

Remove(seq, i) == SubSeq(seq, 1, i - 1) \o SubSeq(seq, i + 1, Len(seq))

\* ------------------------------------------------------------- fetchData
\* fetchData up to its await: setLoading(true), setError(null), four reads sent.
fetchData(origin) ==
    /\ Len(fetches) < MaxFetch
    /\ loading' = TRUE
    /\ error' = Null
    /\ fetches' = Append(fetches, NewFetch(origin))

\* The backend answers the next of a fetchData's four reads, in the order they
\* were sent, from the collections it holds at that moment.
BackendRead(i) ==
    /\ i \in 1..Len(fetches)
    /\ Len(fetches[i].served) < Len(ReadOrder)
    /\ fetches' = [fetches EXCEPT ![i].served = Append(@, [gen |-> bGen, src |-> bSrc])]
    /\ UNCHANGED <<appVars, runPhase, clicks, polls, demoSent, demoOk,
                   backendVars, histVars, call, hook>>

\* The responses of api.getStats / getMarkets / getOpportunities / getPredictions.
StatsResponse(snap) == StatsOf(snap.src)
ListResponse(snap, n, limit) == Limited(Dataset(snap.src)[n], limit)

\* How a setter replaces a collection by the response.
SetCollectionMutAppend(old, data) == old \o data

SetCollection(old, data) == data

\* Promise.all resolved: the four setters, then finally setLoading(false).
FetchDataSuccess(i) ==
    /\ i \in 1..Len(fetches)
    /\ Len(fetches[i].served) = Len(ReadOrder)
    /\ LET rd == [n \in ReadNames |->
                    fetches[i].served[CHOOSE k \in 1..4 : ReadOrder[k] = n]] IN
       /\ stats' = StatsResponse(rd["stats"])
       /\ markets' = SetCollection(markets, ListResponse(rd["markets"], "markets", FETCH_LIMIT))
       /\ opportunities' = SetCollection(opportunities,
                              ListResponse(rd["opportunities"], "opportunities", FETCH_LIMIT))
       /\ predictions' = SetCollection(predictions,
                              ListResponse(rd["predictions"], "predictions", FETCH_LIMIT))
       /\ lastReads' = rd
       /\ demoDone' = IF fetches[i].origin = "demo" THEN demoDone + 1 ELSE demoDone
    /\ loading' = FALSE
    /\ fetches' = Remove(fetches, i)
    /\ UNCHANGED <<activeTab, refreshing, error, runPhase, clicks, polls, demoSent, demoOk,
                   backendVars, fetchesForRun, doneSeen, call, hook>>

\* What fetchData's catch does to the collections.
CatchCollectionsMutClear == <<NullStats, <<>>, <<>>, <<>>>>

CatchCollections == collections

\* One of the four reads is rejected: catch sets the error, finally setLoading(false).
FetchDataFail(i, resp) ==
    /\ i \in 1..Len(fetches)
    /\ Len(fetches[i].served) < Len(ReadOrder)
    /\ error' = request(resp).message
    /\ stats' = CatchCollections[1]
    /\ markets' = CatchCollections[2]
    /\ opportunities' = CatchCollections[3]
    /\ predictions' = CatchCollections[4]
    /\ loading' = FALSE
    /\ fetches' = Remove(fetches, i)
    /\ UNCHANGED <<activeTab, refreshing, runPhase, clicks, polls, demoSent, demoOk,
                   backendVars, histVars, call, hook>>

\* ---------------------------------------------------------- handleLoadDemo
HeaderButtonsEnabled == ~(loading \/ refreshing)

EmptyStateButtonShown ==
    ~loading /\ activeTab = TABS.MARKETS /\ Len(markets) = 0

\* handleLoadDemo up to its first await: setLoading(true), POST /load-demo sent.
handleLoadDemo ==
    /\ clicks < MaxClicks
    /\ clicks' = clicks + 1
    /\ loading' = TRUE
    /\ demoSent' = demoSent + 1
    /\ UNCHANGED <<activeTab, collections, refreshing, error, runPhase, polls,
                   fetches, demoOk, backendVars, histVars, call, hook>>

ClickHeaderLoadDemo == HeaderButtonsEnabled /\ handleLoadDemo

ClickEmptyStateLoadDemo == EmptyStateButtonShown /\ handleLoadDemo

\* The backend serves POST /load-demo: the collections are replaced by the demo set.
BackendLoadDemo ==
    /\ demoSent > 0
    /\ ~bLoading
    /\ demoSent' = demoSent - 1
    /\ demoOk' = demoOk + 1
    /\ bGen' = bGen + 1
    /\ bSrc' = "demo"
    /\ UNCHANGED <<appVars, runPhase, clicks, polls, fetches, bLoading,
                   histVars, call, hook>>

\* api.loadDemoData() resolved: await fetchData().
LoadDemoReturn ==
    /\ demoOk > 0
    /\ demoOk' = demoOk - 1
    /\ fetchData("demo")
    /\ UNCHANGED <<activeTab, collections, refreshing, runPhase, clicks, polls, demoSent,
                   backendVars, histVars, call, hook>>

\* api.loadDemoData() rejected, before or after the backend acted on it:
\* setError, setLoading(false).
LoadDemoFail(resp) ==
    /\ \/ demoSent > 0 /\ demoSent' = demoSent - 1 /\ demoOk' = demoOk
       \/ demoOk > 0 /\ demoOk' = demoOk - 1 /\ demoSent' = demoSent
    /\ error' = request(resp).message
    /\ loading' = FALSE
    /\ UNCHANGED <<activeTab, collections, refreshing, runPhase, clicks, polls, fetches,
                   backendVars, histVars, call, hook>>

\* ----------------------------------------------------------- handleRefresh
PollsInFlight(r) == polls[r].sent + polls[r].t + polls[r].f

\* A run is over, and its record reusable, when nothing of it is outstanding.
RunSlotFree(r) == runPhase[r] \in {"idle", "done", "failed"} /\ PollsInFlight(r) = 0

\* handleRefresh up to its first await: setRefreshing(true), setError(null),
\* POST /refresh sent.
handleRefresh ==
    /\ clicks < MaxClicks
    /\ \E r \in Runs : RunSlotFree(r)
    /\ LET r == CHOOSE x \in Runs : RunSlotFree(x) /\ \A y \in Runs : RunSlotFree(y) => x <= y
       IN /\ runPhase' = [runPhase EXCEPT ![r] = "sent"]
          /\ fetchesForRun' = [fetchesForRun EXCEPT ![r] = 0]
          /\ doneSeen' = [doneSeen EXCEPT ![r] = FALSE]
    /\ clicks' = clicks + 1
    /\ refreshing' = TRUE
    /\ error' = Null
    /\ UNCHANGED <<activeTab, collections, loading, polls, fetches, demoSent, demoOk,
                   backendVars, demoDone, lastReads, call, hook>>

ClickRefresh == HeaderButtonsEnabled /\ handleRefresh

\* The backend accepts POST /refresh and starts the refresh in the background.
BackendRefresh(r) ==
    /\ runPhase[r] = "sent"
    /\ ~bLoading
    /\ bLoading' = TRUE
    /\ runPhase' = [runPhase EXCEPT ![r] = "accepted"]
    /\ UNCHANGED <<appVars, clicks, polls, fetches, demoSent, demoOk,
                   bGen, bSrc, histVars, call, hook>>

\* The background refresh ends: all collections replaced together, is_loading false.
BackendFinish ==
    /\ bLoading
    /\ bLoading' = FALSE
    /\ bGen' = bGen + 1
    /\ bSrc' = "live"
    /\ UNCHANGED <<appVars, netVars, histVars, call, hook>>

\* The background refresh fails upstream: the collections stay, is_loading false.
BackendRefreshFail ==
    /\ bLoading
    /\ bLoading' = FALSE
    /\ UNCHANGED <<appVars, netVars, bGen, bSrc, histVars, call, hook>>

\* api.refreshData() resolved: setInterval(..., 2000).
RefreshReturn(r) ==
    /\ runPhase[r] = "accepted"
    /\ runPhase' = [runPhase EXCEPT ![r] = "polling"]
    /\ UNCHANGED <<appVars, clicks, polls, fetches, demoSent, demoOk,
                   backendVars, histVars, call, hook>>

\* api.refreshData() rejected: setRefreshing(false), setError.
RefreshFail(r, resp) ==
    /\ runPhase[r] \in {"sent", "accepted"}
    /\ runPhase' = [runPhase EXCEPT ![r] = "failed"]
    /\ refreshing' = FALSE
    /\ error' = request(resp).message
    /\ UNCHANGED <<activeTab, collections, loading, clicks, polls, fetches, demoSent,
                   demoOk, backendVars, histVars, call, hook>>

\* The interval fires: the callback sends GET /status.
PollTick(r) ==
    /\ runPhase[r] = "polling"
    /\ PollsInFlight(r) < MaxPolls
    /\ polls' = [polls EXCEPT ![r].sent = @ + 1]
    /\ UNCHANGED <<appVars, runPhase, clicks, fetches, demoSent, demoOk,
                   backendVars, histVars, call, hook>>

\* The backend answers GET /status with its is_loading.
BackendStatus(r) ==
    /\ polls[r].sent > 0
    /\ polls' = IF bLoading
                THEN [polls EXCEPT ![r].sent = @ - 1, ![r].t = @ + 1]
                ELSE [polls EXCEPT ![r].sent = @ - 1, ![r].f = @ + 1]
    /\ UNCHANGED <<appVars, runPhase, clicks, fetches, demoSent, demoOk,
                   backendVars, histVars, call, hook>>

\* clearInterval(pollInterval): what becomes of the run's interval.
ClearIntervalMutForgotten(phase) == phase

ClearInterval(phase) == "done"

\* Whether the poll callback takes the completion branch for a status.
CompletionSeenMutAlways(status) == TRUE

CompletionSeen(status) == ~status.is_loading

\* api.getStatus() resolved in run r's poll callback.
PollReturn(r, is_loading) ==
    /\ IF is_loading THEN polls[r].t > 0 ELSE polls[r].f > 0
    /\ polls' = IF is_loading THEN [polls EXCEPT ![r].t = @ - 1]
                              ELSE [polls EXCEPT ![r].f = @ - 1]
    /\ doneSeen' = [doneSeen EXCEPT ![r] = @ \/ ~is_loading]
    /\ IF CompletionSeen([is_loading |-> is_loading])
       THEN /\ runPhase' = [runPhase EXCEPT ![r] = ClearInterval(@)]
            /\ refreshing' = FALSE
            /\ fetchData("poll")
            /\ fetchesForRun' = [fetchesForRun EXCEPT ![r] = @ + 1]
       ELSE /\ UNCHANGED <<runPhase, refreshing, loading, error, fetches, fetchesForRun>>
    /\ UNCHANGED <<activeTab, collections, clicks, demoSent, demoOk,
                   backendVars, demoDone, lastReads, call, hook>>

\* api.getStatus() rejected in run r's poll callback.
PollFail(r, resp) ==
    /\ polls[r].sent > 0
    /\ polls' = [polls EXCEPT ![r].sent = @ - 1]
    /\ runPhase' = [runPhase EXCEPT ![r] = ClearInterval(@)]
    /\ refreshing' = FALSE
    /\ error' = request(resp).message
    /\ UNCHANGED <<activeTab, collections, loading, clicks, fetches, demoSent, demoOk,
                   backendVars, histVars, call, hook>>

\* ------------------------------------------------------------------ tabs
SetActiveTab(tab) ==
    /\ activeTab # tab
    /\ activeTab' = tab
    /\ UNCHANGED <<collections, loading, refreshing, error, netVars, backendVars,
                   histVars, call, hook>>

Next ==
    \/ \E tab \in TabValues : SetActiveTab(tab)
    \/ ClickHeaderLoadDemo
    \/ ClickEmptyStateLoadDemo
    \/ ClickRefresh
    \/ \E i \in 1..MaxFetch : BackendRead(i)
    \/ \E i \in 1..MaxFetch : FetchDataSuccess(i)
    \/ \E i \in 1..MaxFetch, resp \in ErrResponses : FetchDataFail(i, resp)
    \/ BackendLoadDemo
    \/ LoadDemoReturn
    \/ \E resp \in ErrResponses : LoadDemoFail(resp)
    \/ \E r \in Runs : BackendRefresh(r)
    \/ BackendFinish
    \/ BackendRefreshFail
    \/ \E r \in Runs : RefreshReturn(r)
    \/ \E r \in Runs, resp \in ErrResponses : RefreshFail(r, resp)
    \/ \E r \in Runs : PollTick(r)
    \/ \E r \in Runs : BackendStatus(r)
    \/ \E r \in Runs, is_loading \in BOOLEAN : PollReturn(r, is_loading)
    \/ \E r \in Runs, resp \in ErrResponses : PollFail(r, resp)

Spec == Init /\ [][Next]_vars

\* ------------------------------------------------- liveness of the poll loop
\* The interval keeps firing while it is scheduled, the backend answers every
\* request, every settled promise's continuation runs, and a background
\* refresh ends.
Fairness ==
    /\ WF_vars(BackendFinish \/ BackendRefreshFail)
    /\ \A i \in 1..MaxFetch : WF_vars(BackendRead(i)) /\ WF_vars(FetchDataSuccess(i))
    /\ \A r \in Runs :
          /\ WF_vars(PollTick(r))
          /\ WF_vars(BackendStatus(r))
          /\ WF_vars(PollReturn(r, TRUE))
          /\ SF_vars(PollReturn(r, FALSE))

LiveSpec == Init /\ [][Next]_vars /\ Fairness

\* ------------------------------------------ the client's pure functions
NumberArgs == {<<>>, <<0>>, <<50>>}
CategoryArgs == {<<>>, <<"">>, <<"politics">>}
EdgeTypeArgs == {<<>>, <<"">>, <<"arbitrage">>}
RiskLevelArgs == {<<>>, <<"">>, <<"low">>}
DirectionArgs == {<<>>, <<"">>, <<"buy_yes">>}

Bodies ==
    { [kind |-> "not_json"], [kind |-> "null"],
      [kind |-> "object", detail |-> <<>>],
      [kind |-> "object", detail |-> <<"">>],
      [kind |-> "object", detail |-> <<"Market not found">>] }

Responses ==
    [ok : {TRUE}, status : {200}, body : Bodies]
      \cup [ok : {FALSE}, status : {404, 500}, body : Bodies]

PureUnchanged == UNCHANGED <<appVars, netVars, backendVars, histVars, hook>>

CallGetMarkets ==
    \E category \in CategoryArgs, minScore \in NumberArgs, minVolume \in NumberArgs,
       limit \in NumberArgs, offset \in NumberArgs :
       LET args == [category |-> category, minScore |-> minScore, minVolume |-> minVolume,
                    limit |-> limit, offset |-> offset]
       IN /\ call' = [fn |-> "getMarkets", fields |-> MarketsFields, args |-> args,
                      params |-> getMarkets(args),
                      url |-> Endpoint("/markets", getMarkets(args))]
          /\ PureUnchanged

CallGetOpportunities ==
    \E edgeType \in EdgeTypeArgs, minConfidence \in NumberArgs, riskLevel \in RiskLevelArgs,
       limit \in NumberArgs :
       LET args == [edgeType |-> edgeType, minConfidence |-> minConfidence,
                    riskLevel |-> riskLevel, limit |-> limit]
       IN /\ call' = [fn |-> "getOpportunities", fields |-> OpportunitiesFields,
                      args |-> args, params |-> getOpportunities(args),
                      url |-> Endpoint("/opportunities", getOpportunities(args))]
          /\ PureUnchanged

CallGetPredictions ==
    \E direction \in DirectionArgs, minEdge \in NumberArgs, limit \in NumberArgs :
       LET args == [direction |-> direction, minEdge |-> minEdge, limit |-> limit]
       IN /\ call' = [fn |-> "getPredictions", fields |-> PredictionsFields,
                      args |-> args, params |-> getPredictions(args),
                      url |-> Endpoint("/predictions", getPredictions(args))]
          /\ PureUnchanged

CallRequest ==
    \E response \in Responses :
       /\ call' = [fn |-> "request", response |-> response, outcome |-> request(response)]
       /\ PureUnchanged

\* ScoreBar's props: value in halves from below 0 to above max, and max > 0
\* (100 when the prop is omitted).
ScoreValues == {Num(k, 2) : k \in -10..250}
ScoreMaxes == {Num(3, 1), Num(10, 1), Num(50, 1), Num(100, 1)}

CallScoreBar ==
    \E value \in ScoreValues, max \in ScoreMaxes :
       /\ call' = [fn |-> "ScoreBar", value |-> value, max |-> max,
                   render |-> ScoreBar(value, max)]
       /\ PureUnchanged

CallOpportunityCard ==
    \E edge_type \in EdgeTypes \cup DOMAIN EDGE_TYPE_LABELS, risk_level \in RiskLevels :
       LET opportunity == [edge_type |-> edge_type, risk_level |-> risk_level]
       IN /\ call' = [fn |-> "OpportunityCard", opportunity |-> opportunity,
                      render |-> OpportunityCard(opportunity)]
          /\ PureUnchanged

PureNext == CallGetMarkets \/ CallGetOpportunities \/ CallGetPredictions \/ CallRequest
      \/ CallScoreBar \/ CallOpportunityCard

PureSpec == Init /\ [][PureNext]_vars

\* ------------------------------------------------------ the data hooks
\* useMarkets, useOpportunities and usePredictions: useFetch over the client
\* function called with the hook's filters.
HookNames == {"useMarkets", "useOpportunities", "usePredictions"}

HookFields(name) ==
    CASE name = "useMarkets" -> MarketsFields
      [] name = "useOpportunities" -> OpportunitiesFields
      [] name = "usePredictions" -> PredictionsFields

HookPath(name) ==
    CASE name = "useMarkets" -> "/markets"
      [] name = "useOpportunities" -> "/opportunities"
      [] name = "usePredictions" -> "/predictions"

\* filters = {}: every field undefined.
NoFilters(name) ==
    [f \in {HookFields(name)[k][1] : k \in 1..Len(HookFields(name))} |-> <<>>]

\* The filters a component passes: none, or a value for the hook's first field.
HookFilters(name) ==
    LET first == HookFields(name)[1][1]
        values == CASE name = "useMarkets" -> {"politics", "crypto"}
                    [] name = "useOpportunities" -> {"arbitrage", "mispricing"}
                    [] name = "usePredictions" -> {"buy_yes", "buy_no"}
    IN {NoFilters(name)} \cup {[NoFilters(name) EXCEPT ![first] = <<v>>] : v \in values}

\* fetchFn: the request api.getMarkets(filters) (etc.) sends.
FetchFn(name, filters) ==
    Endpoint(HookPath(name), AppendParams(<<>>, filters, HookFields(name)))

\* What the backend returns for a request.
HookResult(url) == [items_of |-> url]

\* refetch up to its await: setLoading(true), setError(null), fetchFn() called.
refetch(name, filters, data, issued, pending) ==
    [name |-> name, filters |-> filters, data |-> data, loading |-> TRUE, error |-> Null,
     issued |-> issued + 1, latestResolved |-> FALSE,
     pending |-> Append(pending, [id |-> issued + 1, url |-> FetchFn(name, filters)])]

\* The hook is mounted: useState initial values, then the effect calls refetch.
HookMount(name, filters) ==
    /\ hook = NoHook
    /\ hook' = refetch(name, filters, Null, 0, <<>>)
    /\ UNCHANGED <<appVars, netVars, backendVars, histVars, call>>

\* The component re-renders with other filters: JSON.stringify(filters) differs,
\* so the effect runs again and calls the new refetch.
HookSetFilters(filters) ==
    /\ hook # NoHook
    /\ filters \in HookFilters(hook.name)
    /\ filters # hook.filters
    /\ hook.issued < MaxHookRequests
    /\ hook' = refetch(hook.name, filters, hook.data, hook.issued, hook.pending)
    /\ UNCHANGED <<appVars, netVars, backendVars, histVars, call>>

\* A pending fetchFn() resolves: setData(result), finally setLoading(false).
HookResolve(k) ==
    /\ hook # NoHook
    /\ k \in 1..Len(hook.pending)
    /\ hook' = [hook EXCEPT !.data = HookResult(hook.pending[k].url),
                            !.loading = FALSE,
                            !.latestResolved = @ \/ hook.pending[k].id = hook.issued,
                            !.pending = Remove(@, k)]
    /\ UNCHANGED <<appVars, netVars, backendVars, histVars, call>>

\* A pending fetchFn() rejects: setError(err.message), finally setLoading(false).
HookReject(k, resp) ==
    /\ hook # NoHook
    /\ k \in 1..Len(hook.pending)
    /\ hook' = [hook EXCEPT !.error = request(resp).message,
                            !.loading = FALSE,
                            !.pending = Remove(@, k)]
    /\ UNCHANGED <<appVars, netVars, backendVars, histVars, call>>

HookNext ==
    \/ \E name \in HookNames : \E filters \in HookFilters(name) : HookMount(name, filters)
    \/ \E name \in HookNames : \E filters \in HookFilters(name) : HookSetFilters(filters)
    \/ \E k \in 1..MaxHookRequests : HookResolve(k)
    \/ \E k \in 1..MaxHookRequests, resp \in ErrResponses : HookReject(k, resp)

HookSpec == Init /\ [][HookNext]_vars

\* ------------------------------------------------------------------ claims
RunInProgress(r) == runPhase[r] \in {"sent", "accepted", "polling"}

\* C1: from the dashboard a second refresh cannot be started while one it
\* started is still in progress: while a run has its trigger pending or its
\* poll interval scheduled, handleRefresh cannot be entered, so that at most one
\* such run exists at any time.
C1_OneRefreshInFlight ==
    /\ \A r \in Runs : RunInProgress(r) => ~HeaderButtonsEnabled
    /\ Cardinality({r \in Runs : RunInProgress(r)}) <= 1

\* C2: after a fetchData call has completed successfully, the stats, markets,
\* opportunities and predictions shown were all read from the same backend
\* generation.
C2_SameGeneration ==
    lastReads # NoReads => \A m, n \in ReadNames : lastReads[m].gen = lastReads[n].gen

\* The steps in which a request of the dashboard is rejected, told by the
\* request leaving the network without its success continuation.
FetchReadRejected ==
    \E i \in 1..Len(fetches) :
        Len(fetches[i].served) < Len(ReadOrder) /\ fetches' = Remove(fetches, i)
LoadDemoRejected == demoSent' + demoOk' = demoSent + demoOk - 1 /\ fetches' = fetches
RefreshRejected == \E r \in Runs : runPhase[r] # "failed" /\ runPhase'[r] = "failed"
PollRejected ==
    \E r \in Runs : polls' = [polls EXCEPT ![r].sent = @ - 1]
AnyRejected == FetchReadRejected \/ LoadDemoRejected \/ RefreshRejected \/ PollRejected

\* C3: when a step of a refresh or reload fails (the trigger, a status poll,
\* the demo load, or one of fetchData's reads), the four collections keep their
\* values and the failure's message is recorded in error.
C3_FailureKeepsLastGood ==
    [][AnyRejected =>
         /\ collections' = collections
         /\ error' \in {request(resp).message : resp \in ErrResponses}]_vars

C3_Witness ==
    /\ error # Null
    /\ Len(markets) > 0
    /\ stats # NullStats

\* C4: for each refresh whose trigger succeeded, completion is acted on once:
\* its poll callbacks invoke fetchData at most once, whatever the timing of the
\* status responses.
C4_CompletionActedOnce == \A r \in Runs : fetchesForRun[r] <= 1

\* C5: a demo reload replaces what the dashboard shows: after any reload whose
\* reads were all served from the demo set, the stats totals and the three
\* collections are those of the demo set, however many loads came before.
C5_DemoReloadReplaces ==
    (\A n \in ReadNames : lastReads[n].src = "demo") =>
        /\ stats = StatsOf("demo")
        /\ markets = Dataset("demo").markets
        /\ opportunities = Dataset("demo").opportunities
        /\ predictions = Dataset("demo").predictions

C5_Witness ==
    /\ demoDone = 2
    /\ \A n \in ReadNames : lastReads[n].src = "demo" /\ lastReads[n].gen = 2
    /\ markets = Dataset("demo").markets
    /\ stats = StatsOf("demo")

\* C6: the query of getMarkets, getOpportunities and getPredictions holds a
\* parameter for a field exactly when the caller supplied a value for it (0
\* included), carrying that value.
C6_ParamIffSupplied ==
    call.fn \in {"getMarkets", "getOpportunities", "getPredictions"} =>
        \A k \in 1..Len(call.fields) :
            LET fd == call.fields[k]
                opt == call.args[fd[1]]
            IN /\ Supplied(opt) =>
                     \E j \in 1..Len(call.params) :
                         call.params[j] = <<fd[2], ToParamValue(fd[3], opt[1])>>
               /\ ~Supplied(opt) =>
                     \A j \in 1..Len(call.params) : call.params[j][1] # fd[2]

\* C7: for a non-OK response request() rejects; the message is the body's
\* detail when the body is JSON holding a (non-empty) one, and otherwise
\* 'Request failed: <status>'; it is never empty.
C7_RejectsWithMessage ==
    (call.fn = "request" /\ ~call.response.ok) =>
        LET body == call.response.body
            hasDetail == body.kind = "object" /\ body.detail # <<>> /\ body.detail[1] # ""
        IN /\ ~call.outcome.resolved
           /\ call.outcome.message # ""
           /\ call.outcome.message =
                IF hasDetail THEN body.detail[1]
                ELSE "Request failed: " \o NumToString(call.response.status)

\* C8: a run's poll callbacks issue the reload only once one of its polls,
\* sent after the trigger returned, has answered is_loading = false.
C8_ReloadOnlyAfterDone ==
    \A r \in Runs :
        /\ fetchesForRun[r] > 0 => doneSeen[r]
        /\ PollsInFlight(r) > 0 => runPhase[r] \in {"polling", "done"}

C8_Witness == \E r \in Runs : fetchesForRun[r] = 1 /\ doneSeen[r] /\ Len(fetches) > 0

\* C9: once the trigger has succeeded and the interval is scheduled, the
\* interval is eventually cleared with refreshing false, and a cleared
\* interval sends no further status poll.
C9_PollLoopEnds ==
    /\ \A r \in Runs : (runPhase[r] = "polling") ~> (runPhase[r] = "done" /\ ~refreshing)
    /\ [][\A r \in Runs : runPhase[r] = "done" => polls'[r].sent <= polls[r].sent]_vars

C9_Witness ==
    \E r \in Runs : runPhase[r] = "done" /\ ~refreshing /\ doneSeen[r] /\ PollsInFlight(r) = 0

\* C10: handleLoadDemo is never entered while refreshing is true, from either
\* of its two buttons.
C10_NoDemoWhileRefreshing ==
    [][(ClickHeaderLoadDemo \/ ClickEmptyStateLoadDemo) => ~refreshing]_vars

\* C11: for every value and every max > 0 the fill width of ScoreBar is
\* value / max * 100 clamped to [0, 100], and the colour class is 'high' when
\* that is at least 70, 'medium' when it is at least 40 and below 70, and 'low'
\* otherwise.
C11_ScoreBarWidthAndColour ==
    call.fn = "ScoreBar" =>
        LET P == call.value.n * call.max.d * 100      \* value / max * 100 = P / Q
            Q == call.value.d * call.max.n
            w == call.render.width
        IN /\ Q > 0 /\ w.d > 0
           /\ P <= 0 => w.n = 0
           /\ P >= 100 * Q => w.n = 100 * w.d
           /\ (0 < P /\ P < 100 * Q) => w.n * Q = P * w.d
           /\ call.render.colorClass =
                 IF P >= 70 * Q THEN "high" ELSE IF P >= 40 * Q THEN "medium" ELSE "low"

\* A bar exactly on the 'high' threshold, for a max other than the default.
C11_Witness ==
    /\ call.fn = "ScoreBar"
    /\ call.max # Num(100, 1)
    /\ call.render.width.n = 70 * call.render.width.d
    /\ call.render.colorClass = "high"

\* C12: every edge type of the data model (arbitrage, mispricing, temporal,
\* volume_signal, liquidity_gap) has its own entry in OpportunityCard's label
\* table, so that no opportunity of such a type is rendered through the
\* fallback (raw type string, gray badge).
C12_EveryEdgeTypeLabelled ==
    (call.fn = "OpportunityCard" /\ call.opportunity.edge_type \in EdgeTypes) =>
        /\ call.opportunity.edge_type \in DOMAIN EDGE_TYPE_LABELS
        /\ call.render.typeInfo # TypeInfoFallback(call.opportunity.edge_type)

\* C13: loading is true whenever at least one fetchData call is in flight,
\* two overlapping calls included, so that the content lists are never shown
\* while a reload is pending.
C13_LoadingWhileFetching == Len(fetches) > 0 => loading

\* C14: when the filters of useMarkets, useOpportunities or usePredictions
\* change while an earlier fetch is pending, then once every request has
\* settled (the one for the latest filters successfully) the hook's data is the
\* result of the request for the latest filters, whatever the order of arrival.
C14_LatestFiltersWin ==
    (hook # NoHook /\ hook.pending = <<>> /\ hook.latestResolved) =>
        hook.data = HookResult(FetchFn(hook.name, hook.filters))

\* C15: refreshing is true exactly when a refresh trigger is pending or a
\* status-poll interval is scheduled: it is not false while an interval is
\* scheduled, and not true once the interval is cleared or the trigger failed.
C15_RefreshingIffRunInProgress == refreshing <=> \E r \in Runs : RunInProgress(r)

====
